---- MODULE Spec2Model ----
(***************************************************************************)
(* Bar-by-bar model of the moving-average crossover backtest:              *)
(* StockBacktester.run_backtest (src/backtester.py) drives MAStrategy      *)
(* (src/strategy.py) through backtrader's Cerebro with its default broker. *)
(*                                                                         *)
(* Units.  Prices are whole currency units, cash is kept in cents, so that *)
(* the 0.03% commission of an order of whole lots is an integer.  The ATR  *)
(* is kept in 1/10000 of a currency unit (Wilder smoothing, truncated).    *)
(* Bars are numbered from 1; Len(data) is the bar being processed, and the *)
(* Python index [-k] of a line is bar Len(data) - k.                       *)
(***************************************************************************)
EXTENDS Integers, Sequences, FiniteSets, TLC

(***************************************************************************)
(* Bounds of the explored inputs.                                          *)
(***************************************************************************)
MaxBars == 23          \* longest series fed to one run
FlatBars == 19         \* leading bars of the series that are flat
BaseVolume == 10       \* volume of a quiet bar

(***************************************************************************)
(* Program constants.                                                      *)
(***************************************************************************)
DefaultFastPeriod == 5
DefaultSlowPeriod == 20
AtrPeriod == 14
TrailingPeriod == 20
VolumeLookback == 7
TrendLookback == 5
AtrLossMultiplier == 2
AtrProfitMultiplier == 3
LotSize == 100
InitialCash == 100000
EnableTrailingStop == FALSE

\* volume_ratio_threshold = 1.5 as the fraction 3/2
VolumeRatioNum == 3
VolumeRatioDen == 2
\* crossover_threshold = 0.001 as the fraction 1/1000
CrossoverThresholdDen == 1000
\* margin_ratio = 0.95 in percent
MarginRatioPct == 95
\* commission = 0.0003 in units of 1/10000
CommissionPer10000 == 3
\* fixed-point unit of the ATR
AtrUnit == 10000

VARIABLES
    level,        \* price level of the series (multiplier of the close menu)
    data,         \* bars fed so far: [open, high, low, close, volume]
    cash,         \* broker cash, in cents
    position,     \* broker position size, in shares
    pending,      \* orders submitted by the strategy, not yet processed
    executed,     \* orders the broker completed, with the bar and price of the fill
    margin,       \* orders the broker rejected for lack of cash
    entry_price,  \* MAStrategy.entry_price
    buy_dates,    \* MAStrategy.buy_dates
    trades,       \* MAStrategy.trades
    nextBars,     \* bars on which MAStrategy.next ran
    pc,           \* "running" while the series is fetched and fed, then how
                  \* the backtest of the instrument ended
    result,       \* the dictionary run_backtest returns
    params,       \* MAStrategy.params: [fast_period, slow_period]
    returns,      \* the TimeReturn analyzer: one return per bar, in 1/1000000
    ret,          \* what run_single_stock_backtest hands to its caller
    sweep,        \* run_market_backtest: the loop over the instruments
    limiter,      \* StockFinder: the counter of API calls, its clock and history
    finder        \* StockFinder: the cache files and the last search

vars == <<level, data, cash, position, pending, executed, margin,
          entry_price, buy_dates, trades, nextBars, pc, result,
          params, returns, ret, sweep, limiter, finder>>

\* self.params.fast_period and self.params.slow_period
FastPeriod == params.fast_period
SlowPeriod == params.slow_period

Max(a, b) == IF a >= b THEN a ELSE b
Min(a, b) == IF a <= b THEN a ELSE b
Abs(a) == IF a >= 0 THEN a ELSE 0 - a

(***************************************************************************)
(* The inputs: a bar's close is one of a few levels, it opens at the       *)
(* previous close or gaps to the top level, its volume is quiet or doubles.*)
(***************************************************************************)
PriceLevels == {1, 10}
ClosePcts == {80, 100, 101, 110, 130}
GapPct == 130

MkBar(o, c, v) ==
    [open |-> o, high |-> Max(o, c), low |-> Min(o, c), close |-> c, volume |-> v]

FlatBar(lv) == MkBar(100 * lv, 100 * lv, BaseVolume)

\* the opens of the bar after prev: at the higher price level one lot is
\* never affordable, so no order is placed and no open is ever read, and
\* the series there open at the previous close only
Opens(lv, prev) ==
    IF lv = 1 THEN {prev.close, GapPct * lv} ELSE {prev.close}

FreeBars(lv, prev) ==
    { MkBar(o, p * lv, v) : o \in Opens(lv, prev),
                            p \in ClosePcts,
                            v \in {BaseVolume, 2 * prev.volume} }

NextBars(d, lv) ==
    IF Len(d) < FlatBars THEN {FlatBar(lv)} ELSE FreeBars(lv, d[Len(d)])

\* self.data.datetime.date(): one bar per trading day, days numbered in order
Date(n) == n

(***************************************************************************)
(* Indicators (MAStrategy.__init__).  d is the sequence of bars fed so far *)
(* and n the bar the value is for.  Averages are compared as sums over a   *)
(* common denominator: Fast and Slow are 20 times the fast and slow SMA.   *)
(***************************************************************************)
RECURSIVE SumClose(_, _, _)
SumClose(d, lo, hi) ==
    IF lo > hi \/ hi < 1 THEN 0 ELSE d[hi].close + SumClose(d, lo, hi - 1)

RECURSIVE SumVolume(_, _, _)
SumVolume(d, lo, hi) ==
    IF lo > hi \/ hi < 1 THEN 0 ELSE d[hi].volume + SumVolume(d, lo, hi - 1)

\* a line has a value on bar n once its period is filled (it is NaN before,
\* and every comparison with NaN is false)
HasFast(n) == n >= FastPeriod
HasSlow(n) == n >= SlowPeriod

\* bt.indicators.SMA(period = fast_period), times SlowPeriod * FastPeriod / FastPeriod
Fast(d, n) == (SlowPeriod \div FastPeriod) * SumClose(d, n - FastPeriod + 1, n)

\* bt.indicators.SMA(period = slow_period), times SlowPeriod
Slow(d, n) == SumClose(d, n - SlowPeriod + 1, n)

\* NonZeroDifference inside bt.indicators.CrossOver: the last non-zero
\* fast_ma - slow_ma, seeded with the first difference
RECURSIVE NonZeroDiff(_, _)
NonZeroDiff(d, n) ==
    LET diff == Fast(d, n) - Slow(d, n)
    IN  IF n <= SlowPeriod \/ diff # 0 THEN diff ELSE NonZeroDiff(d, n - 1)

\* bt.indicators.CrossOver(fast_ma, slow_ma): +1 on an upward cross, -1 on a
\* downward cross, 0 otherwise
CrossOver(d, n) ==
    IF n <= SlowPeriod THEN 0
    ELSE LET before == NonZeroDiff(d, n - 1)
             up == before < 0 /\ Fast(d, n) > Slow(d, n)
             down == before > 0 /\ Fast(d, n) < Slow(d, n)
         IN  (IF up THEN 1 ELSE 0) - (IF down THEN 1 ELSE 0)

\* true range of bar n >= 2
TrueRange(d, n) == Max(d[n].high, d[n - 1].close) - Min(d[n].low, d[n - 1].close)

RECURSIVE SumTrueRange(_, _, _)
SumTrueRange(d, lo, hi) ==
    IF lo > hi THEN 0 ELSE TrueRange(d, hi) + SumTrueRange(d, lo, hi - 1)

\* bt.indicators.ATR(period = atr_period): smoothed (Wilder) moving average of
\* the true range, seeded with the plain mean of the first atr_period values;
\* in units of 1 / AtrUnit
RECURSIVE Atr(_, _)
Atr(d, n) ==
    IF n <= AtrPeriod THEN 0
    ELSE IF n = AtrPeriod + 1
         THEN (AtrUnit * SumTrueRange(d, 2, n)) \div AtrPeriod
         ELSE ((AtrPeriod - 1) * Atr(d, n - 1) + AtrUnit * TrueRange(d, n)) \div AtrPeriod

\* bt.indicators.Highest(self.data.close, period = 20)
RECURSIVE HighestClose(_, _, _)
HighestClose(d, lo, hi) ==
    IF lo >= hi THEN d[hi].close ELSE Max(d[hi].close, HighestClose(d, lo, hi - 1))

TrailingStop(d, n) == HighestClose(d, Max(1, n - TrailingPeriod + 1), n)

\* mutant of MinPeriod: only the fast average is waited for
MinPeriodFastOnly == FastPeriod

\* the strategy's minimum period: next() is first called on the bar where
\* every indicator has a value; CrossOver and ATR look one bar back
MinPeriod ==
    Max(Max(FastPeriod, SlowPeriod + 1), Max(AtrPeriod + 1, TrailingPeriod))

(***************************************************************************)
(* The entry conditions of MAStrategy.next, on bar n of d.                 *)
(***************************************************************************)
\* mutant of GoldenCross: the fast average above the slow one is enough
GoldenCrossAnyAbove(d, n) ==
    /\ HasSlow(n - 1)
    /\ Fast(d, n) > Slow(d, n)

\* crossover_occurred
GoldenCross(d, n) ==
    /\ HasSlow(n - 1)
    /\ Fast(d, n) > Slow(d, n)
    /\ Fast(d, n - 1) <= Slow(d, n - 1)

\* mutant of Denominator: the two differences are subtracted the other way
DenominatorSwapped(d, n) ==
    (Slow(d, n) - Slow(d, n - 1)) - (Fast(d, n) - Fast(d, n - 1))

\* denominator = (fast[0] - fast[-1]) - (slow[0] - slow[-1]), times SlowPeriod
Denominator(d, n) ==
    (Fast(d, n) - Fast(d, n - 1)) - (Slow(d, n) - Slow(d, n - 1))

\* alpha = (slow[-1] - fast[-1]) / denominator as the fraction
\* AlphaNum / Denominator
AlphaNum(d, n) == Slow(d, n - 1) - Fast(d, n - 1)

\* crossover_pct as the fraction CrossoverPctNum / CrossoverPctDen: with
\* alpha = (slow[-1] - fast[-1]) / denominator and
\* crossover_price = fast[-1] + alpha * (fast[0] - fast[-1]) it is
\* |crossover_price - slow[0]| / slow[0]; it stays 0 when denominator is 0
CrossoverPctNum(d, n) ==
    LET den == Denominator(d, n)
    IN  IF den = 0 THEN 0
        ELSE Abs(Fast(d, n - 1) * den
                 + (Slow(d, n - 1) - Fast(d, n - 1)) * (Fast(d, n) - Fast(d, n - 1))
                 - Slow(d, n) * den)

CrossoverPctDen(d, n) ==
    LET den == Denominator(d, n)
    IN  IF den = 0 THEN 1 ELSE Abs(den) * Slow(d, n)

\* crossover_pct >= crossover_threshold
CrossoverLargeEnough(d, n) ==
    CrossoverPctNum(d, n) >=
        (CrossoverPctDen(d, n) + CrossoverThresholdDen - 1) \div CrossoverThresholdDen

\* current_volume > volume_ratio_threshold * prev_volume, prev_volume being the
\* mean volume of the 7 bars before this one
VolumeCondition(d, n) ==
    VolumeRatioDen * VolumeLookback * d[n].volume >
        VolumeRatioNum * SumVolume(d, n - VolumeLookback, n - 1)

\* weekly_trend
WeeklyTrend(d, n) ==
    /\ HasFast(n - TrendLookback)
    /\ Fast(d, n) > Fast(d, n - TrendLookback)

\* mutant of VolumeUptrend: only the last transition is looked at
VolumeUptrendOneStep(d, n) ==
    /\ n >= 2
    /\ d[n].volume > d[n - 1].volume

\* volume_uptrend
VolumeUptrend(d, n) ==
    /\ n >= 3
    /\ d[n].volume > d[n - 1].volume
    /\ d[n - 1].volume > d[n - 2].volume

\* mutant of calculate_trade_size: the size is not rounded down to whole lots
calculate_trade_size_unrounded(c, price) ==
    (c * MarginRatioPct) \div (100 * 100 * price)

\* calculate_trade_size: int((cash * margin_ratio) / price / 100) * 100, the
\* cash c being given in cents
calculate_trade_size(c, price) ==
    ((c * MarginRatioPct) \div (100 * 100 * price * LotSize)) * LotSize

(***************************************************************************)
(* The exit conditions of MAStrategy.next, on bar n of d.                  *)
(***************************************************************************)
\* current_date in self.buy_dates
SettlementHold(n, bd) == Date(n) \in bd

\* mutant of DeathCross: the sign of the test is inverted
DeathCrossInverted(d, n) == CrossOver(d, n) > 0

\* self.crossover < 0
DeathCross(d, n) == CrossOver(d, n) < 0

\* mutant of StopLossHit: the close is compared from the wrong side
StopLossHitAbove(d, n, entry) ==
    AtrUnit * (entry - d[n].close) < AtrLossMultiplier * Atr(d, n)

\* current_price < stop_loss, stop_loss = entry_price - atr * atr_loss_multiplier
StopLossHit(d, n, entry) ==
    AtrUnit * (entry - d[n].close) > AtrLossMultiplier * Atr(d, n)

\* current_price > take_profit, take_profit = entry_price + atr * atr_profit_multiplier
TakeProfitHit(d, n, entry) ==
    AtrUnit * (d[n].close - entry) > AtrProfitMultiplier * Atr(d, n)

\* self.p.enable_trailing_stop and current_price < self.trailing_stop[0]
TrailingStopHit(d, n) ==
    EnableTrailingStop /\ d[n].close < TrailingStop(d, n)

\* mutant of ExitReason: the stop-loss is tested before the death cross
ExitReasonStopFirst(d, n, entry) ==
    IF AtrUnit * (entry - d[n].close) > AtrLossMultiplier * Atr(d, n) THEN "stop loss"
    ELSE IF CrossOver(d, n) < 0 THEN "death cross"
    ELSE IF AtrUnit * (d[n].close - entry) > AtrProfitMultiplier * Atr(d, n)
         THEN "take profit"
    ELSE IF EnableTrailingStop /\ d[n].close < TrailingStop(d, n) THEN "trailing stop"
    ELSE "none"

\* the if / elif chain of the exits: the reason of the first rule that holds
ExitReason(d, n, entry) ==
    IF DeathCross(d, n) THEN "death cross"
    ELSE IF StopLossHit(d, n, entry) THEN "stop loss"
    ELSE IF TakeProfitHit(d, n, entry) THEN "take profit"
    ELSE IF TrailingStopHit(d, n) THEN "trailing stop"
    ELSE "none"

\* mutant of BuyTrade: the record carries the date of the first bar
BuyTradeBackdated(n, price, size, reason) ==
    [date |-> Date(1), type |-> "BUY", price |-> price, size |-> size,
     reason |-> reason]

(***************************************************************************)
(* MAStrategy.next on bar n: c and pos are the broker's cash and position  *)
(* as the call sees them, st the strategy's own fields.  It returns the    *)
(* fields after the call and the orders it handed to the broker.           *)
(***************************************************************************)
\* the dictionary appended to self.trades on a buy
BuyTrade(n, price, size, reason) ==
    [date |-> Date(n), type |-> "BUY", price |-> price, size |-> size,
     reason |-> reason]

\* mutant of SellTrade: the sell is dated with the bar before the signal
SellTradeStaleDate(n, price, size, reason) ==
    [date |-> Date(n - 1), type |-> "SELL", price |-> price, size |-> size,
     reason |-> reason]

\* the dictionary appended to self.trades on a sell
SellTrade(n, price, size, reason) ==
    [date |-> Date(n), type |-> "SELL", price |-> price, size |-> size,
     reason |-> reason]

\* self.buy(size = shares): a market order created at the bar's close
BuyOrder(d, n, size) ==
    [isbuy |-> TRUE, size |-> size, price |-> d[n].close, bar |-> n]

\* mutant of CloseOrder: only half of the position is sold
CloseOrderHalf(d, n, pos) ==
    [isbuy |-> FALSE, size |-> pos \div 2, price |-> d[n].close, bar |-> n]

\* self.close(): a market order that sells the whole position
CloseOrder(d, n, pos) ==
    [isbuy |-> FALSE, size |-> pos, price |-> d[n].close, bar |-> n]

\* mutant of BuySignal: the order size is not tested
BuySignalAnySize(d, n, c) ==
    /\ GoldenCross(d, n)
    /\ CrossoverLargeEnough(d, n)
    /\ VolumeCondition(d, n)
    /\ VolumeUptrend(d, n)
    /\ WeeklyTrend(d, n)

\* all the tests that guard the buy, the order size included
BuySignal(d, n, c) ==
    /\ GoldenCross(d, n)
    /\ CrossoverLargeEnough(d, n)
    /\ VolumeCondition(d, n)
    /\ VolumeUptrend(d, n)
    /\ WeeklyTrend(d, n)
    /\ calculate_trade_size(c, d[n].close) >= LotSize

StrategyNext(d, n, c, pos, st) ==
    LET price == d[n].close
        keep == [entry_price |-> st.entry_price, buy_dates |-> st.buy_dates,
                 trades |-> st.trades, orders |-> << >>]
    IN  IF pos = 0
        THEN IF BuySignal(d, n, c)
             THEN LET shares == calculate_trade_size(c, price)
                  IN  [entry_price |-> price,
                       buy_dates |-> st.buy_dates \cup {Date(n)},
                       trades |-> Append(st.trades,
                                         BuyTrade(n, price, shares, "golden cross")),
                       orders |-> <<BuyOrder(d, n, shares)>>]
             ELSE keep
        ELSE IF SettlementHold(n, st.buy_dates)
             THEN keep
             ELSE LET reason == ExitReason(d, n, st.entry_price)
                  IN  IF reason = "none"
                      THEN keep
                      ELSE [keep EXCEPT
                               !.trades = Append(st.trades,
                                                 SellTrade(n, price, pos, reason)),
                               !.orders = <<CloseOrder(d, n, pos)>>]

(***************************************************************************)
(* The broker (cerebro.broker, commission 0.0003, every other setting the  *)
(* default): the orders submitted during one bar are processed when the    *)
(* next bar arrives, before the strategy sees that bar.  An order is first *)
(* checked against the cash at the price it was created with, then filled  *)
(* whole at the new bar's open; a buy that the cash cannot pay at that     *)
(* open is rejected (status Margin).                                       *)
(***************************************************************************)
\* value of size shares at price, in cents
Value(size, price) == size * price * 100

\* commission on that value, in cents
Commission(size, price) == (size * price * CommissionPer10000) \div 100

\* what a buy takes from the cash, and what a sell adds to it
BuyCost(size, price) == Value(size, price) + Commission(size, price)
SellProceeds(size, price) == Value(size, price) - Commission(size, price)

\* cash left by an order filled at price
CashAfter(o, c, price) ==
    IF o.isbuy THEN c - BuyCost(o.size, price) ELSE c + SellProceeds(o.size, price)

\* mutant of Fills: the broker fills without looking at the cash
FillsUnchecked(o, c, open) == TRUE

\* the order passes the check at submission and is filled at the open
Fills(o, c, open) ==
    /\ CashAfter(o, c, o.price) >= 0
    /\ CashAfter(o, c, open) >= 0

\* broker state b = [cash, position, executed, margin] after the orders of
\* the sequence os have been processed on bar n of d
RECURSIVE BrokerNext(_, _, _, _)
BrokerNext(d, n, os, b) ==
    IF os = << >> THEN b
    ELSE LET o == Head(os)
             open == d[n].open
             nb == IF Fills(o, b.cash, open)
                   THEN [cash |-> CashAfter(o, b.cash, open),
                         position |-> IF o.isbuy THEN b.position + o.size
                                      ELSE b.position - o.size,
                         executed |-> Append(b.executed,
                                             [bar |-> n, created |-> o.bar,
                                              isbuy |-> o.isbuy,
                                              size |-> o.size, price |-> open,
                                              cash_before |-> b.cash,
                                              position_before |-> b.position]),
                         margin |-> b.margin]
                   ELSE [b EXCEPT !.margin = Append(b.margin, o)]
         IN  BrokerNext(d, n, Tail(os), nb)

(***************************************************************************)
(* The result of a run: StockBacktester.run_backtest after cerebro.run().  *)
(***************************************************************************)
\* broker.getvalue(): the cash plus the position at the bar's close, in cents
PortfolioValue(c, pos, close) == c + Value(pos, close)

\* the first k decimal digits of r / b, for 0 <= r < b
RECURSIVE Fraction(_, _, _)
Fraction(r, b, k) ==
    IF k = 0 THEN 0
    ELSE ((r * 10) \div b) * 10 ^ (k - 1) + Fraction((r * 10) % b, b, k - 1)

\* the TimeReturn analyzer on one bar: value / value_start - 1, in 1/1000000
TimeReturn(value_start, value) ==
    LET a == Abs(value - value_start)
        m == (a \div value_start) * 1000000 + Fraction(a % value_start, value_start, 6)
    IN  IF value >= value_start THEN m ELSE 0 - m

\* returns.cumsum() up to bar t
RECURSIVE CumSum(_, _)
CumSum(rs, t) == IF t = 0 THEN 0 ELSE rs[t] + CumSum(rs, t - 1)

\* equity_curve = (1 + returns.cumsum()) * initial_cash, in cents
EquityCurve(rs) ==
    [t \in 1..Len(rs) |->
        InitialCash * 100 + ((InitialCash \div 100) * CumSum(rs, t)) \div 100]

\* the dictionary run_backtest builds once cerebro.run() has returned
BacktestResult(c, pos, close, ts, rs) ==
    LET final_value == PortfolioValue(c, pos, close)
        pnl == final_value - InitialCash * 100
    IN  [set |-> TRUE,
         initial_cash |-> InitialCash * 100,
         final_value |-> final_value,
         pnl |-> pnl,
         return_pct |-> pnl \div (InitialCash \div 10),
         trades |-> ts,
         equity_curve |-> EquityCurve(rs)]

(***************************************************************************)
(* What run_single_stock_backtest returns: the result with the instrument  *)
(* metadata added, or None after any failure.                              *)
(***************************************************************************)
NotReturned == [returned |-> FALSE]
None == [returned |-> TRUE, value |-> "None"]

\* mutant of SingleReturn: after a failed run whatever was built is returned
SingleReturnPartial(outcome, res) ==
    IF outcome \in {"done", "raised"}
    THEN [returned |-> TRUE, value |-> "result", result |-> res,
          stock_info |-> outcome = "done"]
    ELSE None

\* outcome is how the attempt ended: "lookup_failed" (stock_basic raised or
\* had no row), "nodata" (get_stock_data returned None), "raised"
\* (run_backtest raised) or "done"
SingleReturn(outcome, res) ==
    IF outcome = "done"
    THEN [returned |-> TRUE, value |-> "result", result |-> res,
          stock_info |-> TRUE]
    ELSE None

(***************************************************************************)
(* StockFinder (src/foundit.py): the limiter of the API calls.  Time is in *)
(* seconds; admitted lists the calls let through, as runs [time, count].   *)
(***************************************************************************)
RateLimit == 290       \* self.rate_limit
Window == 60           \* seconds after which the counter is reset

\* StockFinder.__init__: no call counted, the counter reset at construction
LimiterInit ==
    [api_calls |-> 0, last_reset |-> 0, now |-> 0, calls |-> 0, ticks |-> 0,
     admitted |-> << >>]

\* one more call let through at time t
Admit(runs, t) ==
    IF runs # << >> /\ runs[Len(runs)].time = t
    THEN [runs EXCEPT ![Len(runs)].count = @ + 1]
    ELSE Append(runs, [time |-> t, count |-> 1])

\* _check_rate_limit called at time l.now: the counter is reset once 60
\* seconds have passed since the last reset; a call that finds the counter at
\* the limit sleeps until those 60 seconds are over, resets it, and is then
\* let through like any other
check_rate_limit(l) ==
    LET current_time == l.now
        a == IF current_time - l.last_reset >= Window
             THEN [l EXCEPT !.api_calls = 0, !.last_reset = current_time]
             ELSE l
        wait_time == Window - (current_time - a.last_reset)
        b == IF a.api_calls >= RateLimit /\ wait_time > 0
             THEN [a EXCEPT !.api_calls = 0,
                            !.last_reset = current_time + wait_time,
                            !.now = current_time + wait_time]
             ELSE a
    IN  [b EXCEPT !.api_calls = b.api_calls + 1,
                  !.calls = b.calls + 1,
                  !.admitted = Admit(b.admitted, b.now)]

(***************************************************************************)
(* StockFinder: the cache of find_continuous_inflow_stocks.  A cache file  *)
(* is [exists, mtime, holder, other, rows, asof]: the day it was last      *)
(* written, whether it has the two holder columns and the other required   *)
(* columns, the stocks it lists and the day their flow data was fetched.   *)
(***************************************************************************)
Universe == {1, 2}     \* the stocks of the market
Periods == {10, 60}    \* the values of days the searches are made with

NoFile ==
    [exists |-> FALSE, mtime |-> 0, holder |-> FALSE, other |-> FALSE,
     rows |-> {}, asof |-> 0]

NoCall == [called |-> FALSE]

\* no search made yet and an empty cache directory
FinderIdle ==
    [today |-> 0, files |-> [days \in Periods |-> NoFile], last |-> NoCall]

\* is_cache_valid: the file exists, has the required columns and was last
\* modified today
is_cache_valid(file, today) ==
    /\ file.exists
    /\ file.holder
    /\ file.other
    /\ file.mtime = today

\* update_cache_with_holder_info followed by to_csv: the rows are kept, the
\* holder columns added, the file written today
WithHolderInfo(file, today) == [file EXCEPT !.holder = TRUE, !.mtime = today]

\* base_stocks: None, or the stocks given
NoBase == [given |-> FALSE, stocks |-> {}]
Base(stocks) == [given |-> TRUE, stocks |-> stocks]

\* find_continuous_inflow_stocks(days, use_cache, base_stocks) called in
\* state f; base is NoBase or Base of the stocks given, listed tells whether
\* _get_all_stocks got the list, inflow is the set of stocks whose fresh flow
\* data pass the filter of analyze_stock_inflow
find_continuous_inflow_stocks(f, days, use_cache, base, listed, inflow) ==
    LET file == f.files[days]
        call(source, out, asof) ==
            [called |-> TRUE, days |-> days, use_cache |-> use_cache,
             base |-> base, today |-> f.today, before |-> file,
             source |-> source, out |-> out, asof |-> asof]
        cached(fl) ==
            [f EXCEPT !.files[days] = fl,
                      !.last = call("cache", fl.rows, fl.asof)]
        stocks == IF base.given THEN base.stocks
                  ELSE IF listed THEN Universe ELSE {}
        results == stocks \cap inflow
        written == [exists |-> TRUE, mtime |-> f.today, holder |-> TRUE,
                    other |-> TRUE, rows |-> results, asof |-> f.today]
        computed ==
            [f EXCEPT !.files[days] =
                          IF results # {} /\ use_cache THEN written ELSE file,
                      !.last = call("computed", results, f.today)]
    IN  IF use_cache /\ file.exists
        THEN IF ~file.holder THEN cached(WithHolderInfo(file, f.today))
             ELSE IF ~is_cache_valid(file, f.today) THEN computed
             ELSE cached(file)
        ELSE computed

(***************************************************************************)
(* The backtest of one instrument: run_single_stock_backtest, with         *)
(* get_stock_data and run_backtest inside it.                              *)
(***************************************************************************)
DefaultParams ==
    [fast_period |-> DefaultFastPeriod, slow_period |-> DefaultSlowPeriod]

\* run_market_backtest is not running
SweepIdle ==
    [pc |-> "idle", total |-> 0, stocks |-> << >>,
     markets |-> [MAIN |-> << >>, GEM |-> << >>, STAR |-> << >>]]

\* cerebro and the strategy as constructed: setcash(initial_cash), no
\* position, no order, MAStrategy.__init__'s empty fields
RunInit ==
    /\ data = << >>
    /\ cash = InitialCash * 100
    /\ position = 0
    /\ pending = << >>
    /\ executed = << >>
    /\ margin = << >>
    /\ entry_price = 0
    /\ buy_dates = {}
    /\ trades = << >>
    /\ nextBars = {}
    /\ result = [set |-> FALSE]
    /\ returns = << >>
    /\ ret = NotReturned

\* run_backtest adds MAStrategy without arguments: the default parameters
Init ==
    /\ level \in PriceLevels
    /\ RunInit
    /\ params = DefaultParams
    /\ pc = "running"
    /\ sweep = SweepIdle
    /\ limiter = LimiterInit
    /\ finder = FinderIdle

\* the broker processes the pending orders on the new bar
Broker(d) ==
    BrokerNext(d, Len(d), pending,
               [cash |-> cash, position |-> position,
                executed |-> executed, margin |-> margin])

\* the value TimeReturn saw on the previous bar (the starting cash before the
\* first), and the return it records for the new bar
Recorded(d, b) ==
    LET n == Len(d)
        before == IF n = 1 THEN cash
                  ELSE PortfolioValue(cash, position, d[n - 1].close)
    IN  Append(returns,
               TimeReturn(before, PortfolioValue(b.cash, b.position, d[n].close)))

\* a bar before the minimum period: the broker runs, the strategy's prenext
\* does nothing
PreNextBar ==
    /\ pc = "running"
    /\ Len(data) < MaxBars
    /\ Len(data) + 1 < MinPeriod
    /\ \E bar \in NextBars(data, level) :
         LET d == Append(data, bar)
             b == Broker(d)
         IN  /\ data' = d
             /\ cash' = b.cash
             /\ position' = b.position
             /\ executed' = b.executed
             /\ margin' = b.margin
             /\ pending' = << >>
             /\ returns' = Recorded(d, b)
    /\ UNCHANGED <<level, entry_price, buy_dates, trades, nextBars, pc, result,
                   params, ret, sweep, limiter, finder>>

\* a bar from the minimum period on: the broker runs, then MAStrategy.next
NextBar ==
    /\ pc = "running"
    /\ Len(data) < MaxBars
    /\ Len(data) + 1 >= MinPeriod
    /\ \E bar \in NextBars(data, level) :
         LET d == Append(data, bar)
             n == Len(d)
             b == Broker(d)
             s == StrategyNext(d, n, b.cash, b.position,
                               [entry_price |-> entry_price,
                                buy_dates |-> buy_dates, trades |-> trades])
         IN  /\ data' = d
             /\ cash' = b.cash
             /\ position' = b.position
             /\ executed' = b.executed
             /\ margin' = b.margin
             /\ pending' = s.orders
             /\ entry_price' = s.entry_price
             /\ buy_dates' = s.buy_dates
             /\ trades' = s.trades
             /\ nextBars' = nextBars \cup {n}
             /\ returns' = Recorded(d, b)
    /\ UNCHANGED <<level, pc, result, params, ret, sweep, limiter, finder>>

\* the attempt ends without a run
Ends(outcome) ==
    /\ pc' = outcome
    /\ ret' = SingleReturn(outcome, result)
    /\ UNCHANGED <<level, data, cash, position, pending, executed, margin,
                   entry_price, buy_dates, trades, nextBars, result,
                   params, returns, sweep, limiter, finder>>

\* pro.stock_basic raises, or has no row for the code and .iloc[0] raises
LookupFails ==
    /\ pc = "running"
    /\ data = << >>
    /\ Ends("lookup_failed")

\* the provider has no bar for the period: get_stock_data returns None
NoData ==
    /\ pc = "running"
    /\ data = << >>
    /\ Ends("nodata")

\* the series is shorter than the minimum period: an indicator writes past
\* the end of its buffer and cerebro.run() raises
RunRaises ==
    /\ pc = "running"
    /\ Len(data) >= 1
    /\ Len(data) < MinPeriod
    /\ Ends("raised")

\* the series is exhausted: cerebro.run() returns and the result is built
Stop ==
    /\ pc = "running"
    /\ Len(data) >= MinPeriod
    /\ pc' = "done"
    /\ result' = BacktestResult(cash, position, data[Len(data)].close,
                                trades, returns)
    /\ ret' = SingleReturn("done", result')
    /\ UNCHANGED <<level, data, cash, position, pending, executed, margin,
                   entry_price, buy_dates, trades, nextBars,
                   params, returns, sweep, limiter, finder>>

Next == PreNextBar \/ NextBar \/ LookupFails \/ NoData \/ RunRaises \/ Stop

Spec == Init /\ [][Next]_vars

(***************************************************************************)
(* The same backtest with MAStrategy given parameters whose slow period    *)
(* does not exceed the fast one.                                           *)
(***************************************************************************)
InvalidParams == {[fast_period |-> DefaultFastPeriod, slow_period |-> DefaultFastPeriod]}

ConfigInit ==
    /\ level = 1
    /\ RunInit
    /\ params \in InvalidParams
    /\ pc = "running"
    /\ sweep = SweepIdle
    /\ limiter = LimiterInit
    /\ finder = FinderIdle

ConfigSpec == ConfigInit /\ [][Next]_vars

(***************************************************************************)
(* The market sweep: the loop of StockBacktester.run_market_backtest over  *)
(* the instruments of get_stock_list().                                    *)
(***************************************************************************)
MaxStocks == 3         \* largest universe swept

\* stock['market']: the main board, the small and medium board, the growth
\* board (GEM), the science and technology board (STAR), and the Beijing
\* exchange as a label the sweep does not know
MarketLabels == {"main_board", "sme_board", "gem_board", "star_board", "bse"}

\* per instrument: get_stock_data returns None, run_backtest raises, or the
\* backtest returns a result
Outcomes == {"nodata", "raised", "ok"}

\* mutant of Segment: the small and medium board is not known
SegmentMainOnly(label) ==
    IF label = "main_board" THEN "MAIN"
    ELSE IF label = "gem_board" THEN "GEM"
    ELSE IF label = "star_board" THEN "STAR"
    ELSE "none"

\* the if / elif chain on stock['market']
Segment(label) ==
    IF label \in {"main_board", "sme_board"} THEN "MAIN"
    ELSE IF label = "gem_board" THEN "GEM"
    ELSE IF label = "star_board" THEN "STAR"
    ELSE "none"

\* mutant of LoopBody: an exception ends the loop
LoopBodyAborting(s, label, outcome) ==
    LET i == Len(s.stocks) + 1
        seen == [s EXCEPT !.stocks = Append(s.stocks,
                                            [market |-> label, outcome |-> outcome])]
        seg == Segment(label)
    IN  IF outcome = "raised" THEN [seen EXCEPT !.pc = "done"]
        ELSE IF outcome # "ok" \/ seg = "none" THEN seen
        ELSE [seen EXCEPT !.markets[seg] =
                  Append(s.markets[seg], [stock |-> i, market |-> label])]

\* one iteration of the loop, for the instrument after those already seen
LoopBody(s, label, outcome) ==
    LET i == Len(s.stocks) + 1
        seen == [s EXCEPT !.stocks = Append(s.stocks,
                                            [market |-> label, outcome |-> outcome])]
        seg == Segment(label)
    IN  IF outcome # "ok" \/ seg = "none" THEN seen
        ELSE [seen EXCEPT !.markets[seg] =
                  Append(s.markets[seg], [stock |-> i, market |-> label])]

SweepInit ==
    /\ level = 1
    /\ RunInit
    /\ params = DefaultParams
    /\ pc = "idle"
    /\ \E total \in 0..MaxStocks :
         sweep = [SweepIdle EXCEPT !.pc = "loop", !.total = total]
    /\ limiter = LimiterInit
    /\ finder = FinderIdle

SweepStep ==
    /\ sweep.pc = "loop"
    /\ Len(sweep.stocks) < sweep.total
    /\ \E label \in MarketLabels, outcome \in Outcomes :
         sweep' = LoopBody(sweep, label, outcome)
    /\ UNCHANGED <<level, data, cash, position, pending, executed, margin,
                   entry_price, buy_dates, trades, nextBars, pc, result,
                   params, returns, ret, limiter, finder>>

\* the loop is over: the statistics are logged and markets is returned
SweepReturn ==
    /\ sweep.pc = "loop"
    /\ Len(sweep.stocks) = sweep.total
    /\ sweep' = [sweep EXCEPT !.pc = "done"]
    /\ UNCHANGED <<level, data, cash, position, pending, executed, margin,
                   entry_price, buy_dates, trades, nextBars, pc, result,
                   params, returns, ret, limiter, finder>>

SweepNext == SweepStep \/ SweepReturn

SweepSpec == SweepInit /\ [][SweepNext]_vars

(***************************************************************************)
(* The API calls of a StockFinder: time passes, _check_rate_limit is       *)
(* called.                                                                 *)
(***************************************************************************)
MaxCalls == 292        \* calls made to the limiter
MaxTicks == 1          \* times the clock is moved between the calls
TimeSteps == {1, 59}   \* seconds the clock is moved by

backtestVars ==
    <<level, data, cash, position, pending, executed, margin,
      entry_price, buy_dates, trades, nextBars, pc, result,
      params, returns, ret, sweep>>

FinderInit ==
    /\ level = 1
    /\ RunInit
    /\ params = DefaultParams
    /\ pc = "idle"
    /\ sweep = SweepIdle
    /\ limiter = LimiterInit
    /\ finder = FinderIdle

\* time passes between two calls
Tick ==
    /\ limiter.ticks < MaxTicks
    /\ \E step \in TimeSteps :
         limiter' = [limiter EXCEPT !.now = @ + step, !.ticks = @ + 1]
    /\ UNCHANGED <<backtestVars, finder>>

\* a method of the finder is about to call the API
CheckRateLimit ==
    /\ limiter.calls < MaxCalls
    /\ limiter' = check_rate_limit(limiter)
    /\ UNCHANGED <<backtestVars, finder>>

RateNext == Tick \/ CheckRateLimit

RateSpec == FinderInit /\ [][RateNext]_vars

(***************************************************************************)
(* The searches of a StockFinder over the days: the cache directory may    *)
(* hold files of an earlier version, without the holder columns or without *)
(* another required column.  find_stocks is a sequence of these searches.  *)
(***************************************************************************)
MaxDays == 1           \* days that pass

\* cache files found in the directory when the finder is constructed
FoundFiles ==
    {NoFile} \cup
    { [exists |-> TRUE, mtime |-> 0, holder |-> h, other |-> o,
       rows |-> Universe, asof |-> 0] : h, o \in BOOLEAN }

CacheInit ==
    /\ level = 1
    /\ RunInit
    /\ params = DefaultParams
    /\ pc = "idle"
    /\ sweep = SweepIdle
    /\ limiter = LimiterInit
    /\ \E found \in FoundFiles :
         finder = [FinderIdle EXCEPT !.files[10] = found]

NewDay ==
    /\ finder.today < MaxDays
    /\ finder' = [finder EXCEPT !.today = @ + 1]
    /\ UNCHANGED <<backtestVars, limiter>>

Find ==
    /\ \E days \in Periods, use_cache \in BOOLEAN,
          base \in {NoBase, Base({1}), Base(Universe)},
          listed \in BOOLEAN, inflow \in SUBSET Universe :
         finder' = find_continuous_inflow_stocks(finder, days, use_cache,
                                                 base, listed, inflow)
    /\ UNCHANGED <<backtestVars, limiter>>

CacheNext == NewDay \/ Find

CacheSpec == CacheInit /\ [][CacheNext]_vars

(***************************************************************************)
(* Properties.                                                             *)
(***************************************************************************)
LastTrade == trades[Len(trades)]

\* the strategy recorded a trade of this type on the bar just processed
RecordedNow(type) ==
    /\ trades # << >>
    /\ LastTrade.type = type
    /\ LastTrade.date = Date(Len(data))

\* the trades recorded with the date of bar n
TradesOn(n) == {i \in 1..Len(trades) : trades[i].date = Date(n)}

\* next() ran on the bar just processed and saw a long position that is not
\* under the settlement hold
LongAndFree ==
    /\ Len(data) \in nextBars
    /\ position > 0
    /\ Date(Len(data)) \notin buy_dates

\* cash and position right after the i-th fill
CashAfterFill(i) ==
    IF i = Len(executed) THEN cash ELSE executed[i + 1].cash_before
PositionAfterFill(i) ==
    IF i = Len(executed) THEN position ELSE executed[i + 1].position_before

\* C1: no SELL of the ledger carries the date of the BUY recorded before it,
\* and no fill closes a position on the date of the fill that opened it.
C1_NoSameDayExit ==
    /\ \A i \in 2..Len(trades) :
         (trades[i].type = "SELL" /\ trades[i - 1].type = "BUY")
             => trades[i].date # trades[i - 1].date
    /\ \A i \in 2..Len(executed) :
         (~executed[i].isbuy /\ executed[i - 1].isbuy)
             => Date(executed[i].bar) # Date(executed[i - 1].bar)

C1_Witness ==
    /\ \E i \in 2..Len(trades) : trades[i].type = "SELL" /\ trades[i - 1].type = "BUY"
    /\ \E i \in 2..Len(executed) : ~executed[i].isbuy /\ executed[i - 1].isbuy

\* C2: cash is never negative, and every buy that was filled cost, commission
\* included, no more than the cash held before the fill.
C2_CashNeverOverdrawn ==
    /\ cash >= 0
    /\ \A i \in 1..Len(executed) :
         executed[i].isbuy =>
             executed[i].size * executed[i].price * 10003
                 <= executed[i].cash_before * 100

C2_Witness ==
    \E i \in 1..Len(executed) :
        /\ executed[i].isbuy
        /\ CashAfterFill(i) < executed[i].cash_before

\* C3: the position is a natural number of shares, zero or a multiple of the
\* lot of 100; it is never short.
C3_PositionWholeLots ==
    /\ position \in Nat
    /\ position % 100 = 0

C3_Witness == position >= 100

\* C4: on a bar where the position is long and not under settlement hold, the
\* exits are tried in the order death cross, stop-loss, take-profit, trailing
\* stop: the first that holds gives the one SELL of the bar and its reason, and
\* when none holds nothing is recorded.
C4_ExitPrecedence ==
    LET n == Len(data)
        close == data[n].close
        atr == Atr(data, n)
        death == CrossOver(data, n) < 0
        stop == AtrUnit * (entry_price - close) > 2 * atr
        profit == AtrUnit * (close - entry_price) > 3 * atr
        trail == EnableTrailingStop /\ close < TrailingStop(data, n)
        sold(r) == RecordedNow("SELL") /\ LastTrade.reason = r
    IN  LongAndFree =>
            /\ Cardinality(TradesOn(n)) <= 1
            /\ death => sold("death cross")
            /\ (~death /\ stop) => sold("stop loss")
            /\ (~death /\ ~stop /\ profit) => sold("take profit")
            /\ (~death /\ ~stop /\ ~profit /\ trail) => sold("trailing stop")
            /\ (~death /\ ~stop /\ ~profit /\ ~trail) => TradesOn(n) = {}

C4_Witness ==
    /\ LongAndFree
    /\ CrossOver(data, Len(data)) < 0
    /\ AtrUnit * (entry_price - data[Len(data)].close) > 2 * Atr(data, Len(data))
    /\ RecordedNow("SELL")
    /\ LastTrade.reason = "death cross"

\* C5: on a bar that next() sees flat, a BUY is recorded exactly when the
\* golden cross, the crossover magnitude, the volume ratio, the volume uptrend,
\* the rising fast average and an order size of at least one lot all hold.
C5_BuyIffAllConditions ==
    LET n == Len(data)
        fast(k) == SumClose(data, k - 4, k)
        slow(k) == SumClose(data, k - 19, k)
        golden == 4 * fast(n - 1) <= slow(n - 1) /\ 4 * fast(n) > slow(n)
        volumeRatio == 2 * 7 * data[n].volume > 3 * SumVolume(data, n - 7, n - 1)
        volumeUp == /\ data[n].volume > data[n - 1].volume
                    /\ data[n - 1].volume > data[n - 2].volume
        rising == fast(n) > fast(n - 5)
        oneLot == cash * 95 >= 1000000 * data[n].close
    IN  (n \in nextBars /\ position = 0) =>
            (RecordedNow("BUY") <=>
                (/\ golden
                 /\ CrossoverLargeEnough(data, n)
                 /\ volumeRatio
                 /\ volumeUp
                 /\ rising
                 /\ oneLot))

C5_Witness ==
    /\ Len(data) \in nextBars
    /\ position = 0
    /\ RecordedNow("BUY")
    /\ LastTrade.size >= 100

\* C6: every order is filled whole on the bar of its signal, at that bar's
\* close: after a BUY recorded on the bar the position has the ordered size,
\* after a SELL it is flat, and no order is rejected or left for a later bar.
C6_InstantFillAtClose ==
    /\ pending = << >>
    /\ margin = << >>
    /\ RecordedNow("BUY") => position = LastTrade.size
    /\ RecordedNow("SELL") => position = 0
    /\ \A i \in 1..Len(executed) :
         /\ executed[i].bar = executed[i].created
         /\ executed[i].price = data[executed[i].created].close

\* C7: a BUY fill takes shares x price x 1.0003 from the cash, makes the
\* position the shares bought, and leaves entry_price at the fill price, the
\* bar of the fill among the buy dates and a BUY trade with the fill's date,
\* price and size in the ledger.
C7_BuyFillBookkeeping ==
    \A i \in 1..Len(executed) :
        executed[i].isbuy =>
            /\ (executed[i].cash_before - CashAfterFill(i)) * 100
                   = executed[i].size * executed[i].price * 10003
            /\ PositionAfterFill(i) = executed[i].size
            /\ Date(executed[i].bar) \in buy_dates
            /\ \E j \in 1..Len(trades) :
                 /\ trades[j].type = "BUY"
                 /\ trades[j].date = Date(executed[i].bar)
                 /\ trades[j].price = executed[i].price
                 /\ trades[j].size = executed[i].size
            /\ (i = Len(executed) /\ ~RecordedNow("BUY"))
                   => entry_price = executed[i].price

\* C8: a SELL fill sells the whole position: the cash grows by
\* size x price x 0.9997, the position becomes zero, and the ledger holds one
\* SELL trade for it whose size is the full size held before the fill.
C8_SellClosesAll ==
    \A i \in 1..Len(executed) :
        ~executed[i].isbuy =>
            LET e == executed[i]
                sells == {j \in TradesOn(e.created) : trades[j].type = "SELL"}
            IN  /\ e.size = e.position_before
                /\ e.size > 0
                /\ (CashAfterFill(i) - e.cash_before) * 100 = e.size * e.price * 9997
                /\ PositionAfterFill(i) = 0
                /\ Cardinality(sells) = 1
                /\ \A j \in sells : trades[j].size = e.position_before

C8_Witness ==
    \E i \in 1..Len(executed) : ~executed[i].isbuy /\ PositionAfterFill(i) = 0

\* C9: on a bar where the position is long, the date is not a buy date and the
\* fast average is below the slow one, a SELL with reason death cross is
\* recorded, whatever the sign was on the bar before.
C9_DeathCrossOnNegativeSign ==
    LET n == Len(data)
    IN  (LongAndFree /\ 4 * SumClose(data, n - 4, n) < SumClose(data, n - 19, n))
            => (RecordedNow("SELL") /\ LastTrade.reason = "death cross")

C9_Witness ==
    /\ LongAndFree
    /\ 4 * SumClose(data, Len(data) - 4, Len(data))
           < SumClose(data, Len(data) - 19, Len(data))
    /\ RecordedNow("SELL")
    /\ LastTrade.reason = "death cross"

\* the warm-up window the specification names
WarmUpWindow == Max(SlowPeriod, Max(AtrPeriod, TrailingPeriod))

\* C10: next() evaluates no signal and the ledger records no trade on a bar
\* before the warm-up window of max(slow_period, atr_period, 20) bars has been
\* observed.
C10_NoSignalBeforeWarmUp ==
    /\ \A n \in nextBars : n >= WarmUpWindow
    /\ \A i \in 1..Len(trades) : trades[i].date >= Date(WarmUpWindow)
    /\ Len(data) < WarmUpWindow =>
           (nextBars = {} /\ trades = << >> /\ pending = << >> /\ executed = << >>)

C10_Witness ==
    /\ Len(data) >= 1
    /\ Len(data) < WarmUpWindow
    /\ nextBars = {}

\* C11: a run over an empty series, or over one shorter than the warm-up
\* window, ends with a result that has no trade and an equity curve constant
\* at the initial cash.
C11_ShortSeriesFlatResult ==
    (pc \in {"nodata", "raised", "done"} /\ Len(data) < WarmUpWindow) =>
        /\ result.set
        /\ result.trades = << >>
        /\ Len(result.equity_curve) = Len(data)
        /\ \A t \in 1..Len(data) : result.equity_curve[t] = InitialCash * 100

\* the instruments the sweep has seen that are in some segment of markets
Shown(i) ==
    \E seg \in {"MAIN", "GEM", "STAR"} :
        \E k \in 1..Len(sweep.markets[seg]) : sweep.markets[seg][k].stock = i

RecognizedLabels == {"main_board", "sme_board", "gem_board", "star_board"}

\* C13: the sweep returns only after every instrument of the universe has
\* been attempted; an instrument without data or whose backtest raised is in
\* no segment, and every instrument backtested with a known label is in one,
\* whatever happened to the instruments before and after it.
C13_SweepAttemptsAll ==
    /\ sweep.pc = "done" => Len(sweep.stocks) = sweep.total
    /\ \A i \in 1..Len(sweep.stocks) :
         LET stock == sweep.stocks[i]
         IN  /\ stock.outcome \in {"nodata", "raised"} => ~Shown(i)
             /\ (stock.outcome = "ok" /\ stock.market \in RecognizedLabels)
                    => Shown(i)

C13_Witness ==
    /\ sweep.pc = "done"
    /\ sweep.total = MaxStocks
    /\ \E i, j, k \in 1..Len(sweep.stocks) :
         /\ i < j
         /\ j < k
         /\ Shown(i)
         /\ sweep.stocks[j].outcome \in {"nodata", "raised"}
         /\ Shown(k)

\* C14: an instrument backtested with the label of the main or the small and
\* medium board is exactly once in MAIN and in no other segment, one of the
\* growth board exactly once in GEM, one of the science and technology board
\* exactly once in STAR; any other instrument is in no segment; and every
\* segment lists its instruments in the order of the universe.
C14_SegmentsPartition ==
    LET places(seg, i) ==
            {k \in 1..Len(sweep.markets[seg]) : sweep.markets[seg][k].stock = i}
        expected(stock) ==
            IF stock.outcome # "ok" THEN "none"
            ELSE IF stock.market \in {"main_board", "sme_board"} THEN "MAIN"
            ELSE IF stock.market = "gem_board" THEN "GEM"
            ELSE IF stock.market = "star_board" THEN "STAR"
            ELSE "none"
    IN  /\ \A i \in 1..Len(sweep.stocks) :
             \A seg \in {"MAIN", "GEM", "STAR"} :
                 Cardinality(places(seg, i)) =
                     IF expected(sweep.stocks[i]) = seg THEN 1 ELSE 0
        /\ \A seg \in {"MAIN", "GEM", "STAR"} :
             \A k \in 1..Len(sweep.markets[seg]) :
                 /\ sweep.markets[seg][k].stock \in 1..Len(sweep.stocks)
                 /\ k > 1 => sweep.markets[seg][k - 1].stock
                                 < sweep.markets[seg][k].stock

C14_Witness ==
    /\ sweep.pc = "done"
    /\ Len(sweep.markets["MAIN"]) >= 2
    /\ \E k \in 1..Len(sweep.markets["MAIN"]) :
         sweep.markets["MAIN"][k].market = "sme_board"
    /\ \E i \in 1..Len(sweep.stocks) :
         sweep.stocks[i].outcome = "ok" /\ sweep.stocks[i].market = "bse"

\* C15: the equity curve has one sample per bar, the sample of a bar is the
\* cash plus the position at that bar's close after the bar's fill (to within
\* one currency unit), and the last sample is the final value.
C15_EquityCurveMarksToMarket ==
    LET n == Len(data)
        curve == EquityCurve(returns)
    IN  /\ Len(curve) = n
        /\ n >= 1 =>
             Abs(curve[n] - PortfolioValue(cash, position, data[n].close)) <= 100
        /\ result.set =>
             /\ Len(result.equity_curve) = n
             /\ Abs(result.equity_curve[n] - result.final_value) <= 100

\* C16 as stated: the size is the largest multiple of 100 whose cost at the
\* price is within 95% of the cash, and with a cash of 100000 and a price of
\* 1000 it is 900.
C16_TradeSizeAsStated ==
    LET n == Len(data)
        price == data[n].close
        size == calculate_trade_size(cash, price)
    IN  n >= 1 =>
            /\ size % 100 = 0
            /\ size * price * 10000 <= cash * 95
            /\ (size + 100) * price * 10000 > cash * 95
            /\ (cash = 100000 * 100 /\ price = 1000) => size = 900

\* C16: the size is the largest multiple of 100 whose cost at the price is
\* within 95% of the cash; with a cash of 100000 it is 0 at a price of 1000
\* (95 shares are less than one lot) and 900 at a price of 100.
C16_TradeSizeLargestLot ==
    LET n == Len(data)
        price == data[n].close
        size == calculate_trade_size(cash, price)
    IN  n >= 1 =>
            /\ size % 100 = 0
            /\ size >= 0
            /\ size * price * 10000 <= cash * 95
            /\ (size + 100) * price * 10000 > cash * 95
            /\ (cash = 100000 * 100 /\ price = 1000) => size = 0
            /\ (cash = 100000 * 100 /\ price = 100) => size = 900

C16_Witness ==
    /\ Len(data) \in nextBars
    /\ cash = 100000 * 100
    /\ data[Len(data)].close = 1000
    /\ calculate_trade_size(cash, data[Len(data)].close) = 0

\* every entry test of bar n of d except the order size
EntryConditionsHold(d, n) ==
    LET fast(k) == SumClose(d, k - 4, k)
        slow(k) == SumClose(d, k - 19, k)
    IN  /\ 4 * fast(n - 1) <= slow(n - 1)
        /\ 4 * fast(n) > slow(n)
        /\ CrossoverLargeEnough(d, n)
        /\ 2 * 7 * d[n].volume > 3 * SumVolume(d, n - 7, n - 1)
        /\ d[n].volume > d[n - 1].volume
        /\ d[n - 1].volume > d[n - 2].volume
        /\ fast(n) > fast(n - 5)

\* C17: when next() sees the account flat on a bar where every entry test
\* holds but 95% of the cash does not pay one lot, the bar leaves the ledger,
\* the entry price, the buy dates, the cash and the position as they were,
\* submits no order, and the run goes on.
C17_InsufficientCapitalNoTrade ==
    [][ ( /\ Len(data') = Len(data) + 1
          /\ Len(data') \in nextBars'
          /\ pending = << >>
          /\ position' = 0
          /\ EntryConditionsHold(data', Len(data'))
          /\ cash' * 95 < 1000000 * data'[Len(data')].close )
        => ( /\ trades' = trades
             /\ entry_price' = entry_price
             /\ buy_dates' = buy_dates
             /\ cash' = cash
             /\ position' = position
             /\ pending' = << >>
             /\ pc' = "running" ) ]_vars

C17_Witness ==
    /\ pc = "running"
    /\ Len(data) \in nextBars
    /\ position = 0
    /\ EntryConditionsHold(data, Len(data))
    /\ cash * 95 < 1000000 * data[Len(data)].close
    /\ trades = << >>
    /\ pending = << >>

\* bar n of d shows a golden cross: the fast average was not above the slow
\* one on the bar before and is above it now
ShowsGoldenCross(d, n) ==
    /\ n >= 21
    /\ 4 * SumClose(d, n - 5, n - 1) <= SumClose(d, n - 20, n - 1)
    /\ 4 * SumClose(d, n - 4, n) > SumClose(d, n - 19, n)

\* C18: while no bar of the series has shown a golden cross the ledger is
\* empty and the account untouched, and a run that ends so reports a final
\* value equal to the initial cash.
C18_NoGoldenCrossNoTrade ==
    (\A n \in 1..Len(data) : ~ShowsGoldenCross(data, n)) =>
        /\ trades = << >>
        /\ cash = InitialCash * 100
        /\ position = 0
        /\ result.set => (/\ result.trades = << >>
                          /\ result.final_value = InitialCash * 100)

C18_Witness ==
    /\ result.set
    /\ \A n \in 1..Len(data) : ~ShowsGoldenCross(data, n)
    /\ \E n \in 1..Len(data) : data[n].close # data[1].close
    /\ result.final_value = InitialCash * 100

\* C19: once run_single_stock_backtest has returned, its caller holds
\* either the whole result (metrics, ledger, equity curve, instrument
\* metadata) of a run that ended well, or None after a failed lookup, an
\* empty fetch or a run that raised; never a part of a result.
C19_CompleteResultOrNone ==
    /\ pc # "running" <=> ret.returned
    /\ pc = "done" =>
         /\ ret.value = "result"
         /\ ret.stock_info
         /\ ret.result = result
         /\ DOMAIN ret.result = {"set", "initial_cash", "final_value", "pnl",
                                 "return_pct", "trades", "equity_curve"}
         /\ ret.result.trades = trades
         /\ Len(ret.result.equity_curve) = Len(data)
    /\ pc \in {"lookup_failed", "nodata", "raised"} => ret = None

C19_Witness ==
    /\ pc = "raised"
    /\ Len(data) >= 1
    /\ ret = None

\* C20: a backtest whose slow period does not exceed its fast period fails
\* at once: the strategy sees no bar, no trade is made and no result built.
C20_InvalidConfigurationFails ==
    params.slow_period <= params.fast_period =>
        /\ nextBars = {}
        /\ trades = << >>
        /\ ~result.set

\* C23: the ledger alternates sides from a BUY on: its odd entries are BUY
\* and its even entries SELL.
C23_LedgerAlternates ==
    \A i \in 1..Len(trades) :
        trades[i].type = (IF i % 2 = 1 THEN "BUY" ELSE "SELL")

\* C24: a step either leaves the ledger as it was or adds one trade at its
\* end, whose date is not before the date of the trade recorded last.
C24_LedgerAppendOnly ==
    [][ \/ trades' = trades
        \/ /\ Len(trades') = Len(trades) + 1
           /\ SubSeq(trades', 1, Len(trades)) = trades
           /\ trades'[Len(trades')].date = Date(Len(data'))
           /\ trades # << >> =>
                  trades[Len(trades)].date <= trades'[Len(trades')].date ]_vars

C24_Witness ==
    /\ Len(trades) >= 3
    /\ trades[1].date < trades[2].date
    /\ trades[2].date < trades[3].date

\* the position the ledger accounts for: the sizes bought minus the sizes sold
RECURSIVE LedgerPosition(_)
LedgerPosition(ts) ==
    IF ts = << >> THEN 0
    ELSE LET t == ts[Len(ts)]
         IN  LedgerPosition(SubSeq(ts, 1, Len(ts) - 1))
                 + (IF t.type = "BUY" THEN t.size ELSE 0 - t.size)

\* C26: at the end of every bar the position held is the sum of the sizes of
\* the BUY trades of the ledger minus the sum of the sizes of its SELL trades.
C26_PositionMatchesLedger == position = LedgerPosition(trades)

\* C27: on a bar that shows a golden cross the denominator of the
\* interpolation is positive and alpha is at least 0 and below 1, so the
\* branch for a zero denominator is not taken.
C27_GoldenCrossDenominatorPositive ==
    LET n == Len(data)
    IN  (n \in nextBars /\ ShowsGoldenCross(data, n)) =>
            /\ Denominator(data, n) > 0
            /\ AlphaNum(data, n) >= 0
            /\ AlphaNum(data, n) < Denominator(data, n)

C27_Witness ==
    /\ Len(data) \in nextBars
    /\ position = 0
    /\ ShowsGoldenCross(data, Len(data))
    /\ AlphaNum(data, Len(data)) > 0
    /\ AlphaNum(data, Len(data)) < Denominator(data, Len(data))

\* C28: on a bar where the exits are tried the ATR is not negative and the
\* stop-loss and the take-profit tests are not both true, so the SELL reason
\* is the same whichever of the two is tried first.
C28_StopAndProfitExclusive ==
    LET n == Len(data)
        stop == StopLossHit(data, n, entry_price)
        profit == TakeProfitHit(data, n, entry_price)
    IN  LongAndFree =>
            /\ Atr(data, n) >= 0
            /\ ~(stop /\ profit)
            /\ (RecordedNow("SELL") /\ LastTrade.reason = "stop loss") => ~profit
            /\ (RecordedNow("SELL") /\ LastTrade.reason = "take profit") => ~stop

C28_Witness ==
    /\ LongAndFree
    /\ Atr(data, Len(data)) > 0
    /\ RecordedNow("SELL")
    /\ LastTrade.reason = "take profit"
    /\ ~StopLossHit(data, Len(data), entry_price)

\* C21: a search made with use_cache hands out the cached rows only when the
\* cache file, as the call found it, was last modified on the day of the call
\* and has every required column; any other search is computed from the flow
\* data of that day.
C21_CacheOnlyWhenValid ==
    LET last == finder.last
        valid == /\ last.use_cache
                 /\ last.before.exists
                 /\ last.before.holder
                 /\ last.before.other
                 /\ last.before.mtime = last.today
    IN  last.called =>
            /\ last.source = "cache" <=> valid
            /\ ~valid => (last.source = "computed" /\ last.asof = last.today)

\* C22: the rows of a search made with base_stocks all belong to base_stocks,
\* whatever searches were made before it.
C22_ResultWithinBaseStocks ==
    (finder.last.called /\ finder.last.base.given) =>
        finder.last.out \subseteq finder.last.base.stocks

\* the calls let through at the times of the runs i to j of the history
RECURSIVE Admitted(_, _)
Admitted(i, j) ==
    IF i > j THEN 0 ELSE limiter.admitted[j].count + Admitted(i, j - 1)

\* C25: no span of 60 seconds holds more than rate_limit calls let through.
C25_RateLimitPerMinute ==
    \A i \in 1..Len(limiter.admitted) :
        \A j \in i..Len(limiter.admitted) :
            limiter.admitted[j].time - limiter.admitted[i].time < 60 =>
                Admitted(i, j) <= 290

====
